---- MODULE Spec2Model ----
(***************************************************************************)
(* Model of mojankinator: the archive driver (src/src/main.rs), the git    *)
(* store wrapper (src/src/repository.rs) and the artifact table            *)
(* (src/src/decompiler.rs).                                                *)
(*                                                                         *)
(* Objects of the git store are content addressed, so an object is         *)
(* modelled by its content: a blob by the record of what produced it, a    *)
(* tree by its set of index entries, a commit by the record of its fields  *)
(* (its parents included).  Option<T> is a sequence of length 0 or 1.      *)
(***************************************************************************)
EXTENDS Integers, Sequences, FiniteSets, TLC

VARIABLES
    tags,              \* refs/tags/<id>: version id -> Option<commit>
    branch,            \* refs/heads/<current branch>: Option<commit>
    head,              \* HEAD: symbolic to the branch, or detached at a commit
    bump,              \* how often each artifact's version() was bumped by later builds
    pc,                \* position of main: "idle", "loop", "done"
    versions,          \* main's filtered, sorted `versions`
    i,                 \* index of the version the loop looks at next
    versions_to_tree,  \* main's `versions_to_tree`
    result,            \* what main returned: "none", "running", "Ok", an error kind, "panic"
    calls,             \* decompile_version invocations of the current run
    now,               \* wall-clock time of the current run
    rerun,             \* the current run repeats the run before it: that run returned
                       \* Ok, the version list is the same, no build was installed since
    completed,         \* the list of the last run, if it returned Ok and no build
                       \* was installed since
    interrupted,       \* where the last run failed, if it failed in its loop and
                       \* no build or run was started since: the ids of the
                       \* versions it had committed and tagged, of the version it
                       \* failed on, and of the versions after that one
    resumed,           \* the ids of the versions that the run before the
                       \* current one had committed and tagged when it failed
    all_versions,      \* main's `all_versions`, the manifest, in date order
    config,            \* main's `config`: min_version, max_version
    release_times,     \* what verify_release_times returned for them
    parchment_versions \* what index_parchment_mc_versions returned for them

vars == <<tags, branch, head, bump, pc, versions, i, versions_to_tree,
          result, calls, now, rerun, completed, interrupted, resumed,
          all_versions, config, release_times, parchment_versions>>

store == <<tags, branch, head>>

manifest == <<all_versions, config, release_times, parchment_versions>>

----------------------------------------------------------------------------
\* Bounds of the model.

NumVersions == 2
MaxBump == 1
MaxBodyLines == 2
MaxSavedVersion == 3
MaxParchment == 2


----------------------------------------------------------------------------
\* Option<T>

None == <<>>

Some(x) == <<x>>

----------------------------------------------------------------------------
\* decompiler.rs: DecompileArtifact

DecompiledClassesVersion == 3

LibrariesTxtVersion == 1

DecompileArtifact_all == <<"DecompiledClasses", "LibrariesTxt">>

Artifacts == {DecompileArtifact_all[n] : n \in 1..Len(DecompileArtifact_all)}

\* version(): the table of this build, plus the bumps of the builds after it.
DecompileArtifact_version(artifact) ==
    IF artifact = "DecompiledClasses"
    THEN DecompiledClassesVersion + bump[artifact]
    ELSE LibrariesTxtVersion + bump[artifact]

\* Repository paths are sequences of path components.
path_in_repository(artifact) ==
    IF artifact = "DecompiledClasses" THEN <<"src">> ELSE <<"libraries.txt">>

----------------------------------------------------------------------------
\* main.rs: Version, the manifest

VersionIds == 1..NumVersions

release_time(id) == 10 * id

Version(id) == [id |-> id, release_time |-> release_time(id)]

\* all_versions.sort_by_key(|version| version.release_time), then retain
RECURSIVE sort_by_release_time(_)
sort_by_release_time(ids) ==
    IF ids = {} THEN <<>>
    ELSE LET first == CHOOSE x \in ids :
                          \A y \in ids : release_time(x) <= release_time(y)
         IN  <<Version(first)>> \o sort_by_release_time(ids \ {first})

----------------------------------------------------------------------------
\* main.rs: SavedInfo

SavedInfo_default ==
    [decompiled_classes_version |-> 0, libraries_output_version |-> 0]

SavedInfo_current ==
    [decompiled_classes_version |-> DecompileArtifact_version("DecompiledClasses"),
     libraries_output_version |-> DecompileArtifact_version("LibrariesTxt")]

\* (a bug to compare with: both artifacts read the same field)
get_artifact_version_one_field(info, artifact) ==
    info.decompiled_classes_version

get_artifact_version(info, artifact) ==
    IF artifact = "DecompiledClasses"
    THEN info.decompiled_classes_version
    ELSE info.libraries_output_version

\* (a bug to compare with: a ledger at the table's versions is not current)
is_current_strict(info) ==
    /\ info.decompiled_classes_version > DecompileArtifact_version("DecompiledClasses")
    /\ info.libraries_output_version > DecompileArtifact_version("LibrariesTxt")

is_current(info) ==
    /\ info.decompiled_classes_version >= DecompileArtifact_version("DecompiledClasses")
    /\ info.libraries_output_version >= DecompileArtifact_version("LibrariesTxt")

\* A TOML document is a sequence of lines [key, val]; key "%" is a line that
\* is not TOML at all, a negative val is a value that is no u32.

\* toml::to_string(saved_info): the fields in declaration order
to_string(saved_info) ==
    << [key |-> "decompiled_classes_version",
        val |-> saved_info.decompiled_classes_version],
       [key |-> "libraries_output_version",
        val |-> saved_info.libraries_output_version] >>

\* the field a key deserializes into ("" for a key serde ignores)
field_of(key) ==
    IF key \in {"decompiled_classes_version", "output_version"}
    THEN "decompiled_classes_version"
    ELSE IF key = "libraries_output_version" THEN key ELSE ""

\* toml::from_str::<SavedInfo>(info)
from_str(body) ==
    LET idx == 1..Len(body)
        syntax_error == \E n \in idx : body[n].key = "%"
        duplicate_key == \E m, n \in idx : m # n /\ body[m].key = body[n].key
        duplicate_field ==
            \E m, n \in idx : /\ m # n
                              /\ field_of(body[m].key) # ""
                              /\ field_of(body[m].key) = field_of(body[n].key)
        invalid_value ==
            \E n \in idx : field_of(body[n].key) # "" /\ body[n].val < 0
        field(f) ==
            IF \E n \in idx : field_of(body[n].key) = f
            THEN body[CHOOSE n \in idx : field_of(body[n].key) = f].val
            ELSE 0
    IN  IF syntax_error \/ duplicate_key \/ duplicate_field \/ invalid_value
        THEN [ok |-> FALSE, info |-> SavedInfo_default]
        ELSE [ok |-> TRUE,
              info |-> [decompiled_classes_version |->
                            field("decompiled_classes_version"),
                        libraries_output_version |->
                            field("libraries_output_version")]]

----------------------------------------------------------------------------
\* repository.rs: lookup

version_reference(version_id) == <<"refs", "tags", version_id>>

\* the reference store, by reference name
find_reference(name) ==
    IF \E id \in VersionIds : name = <<"refs", "tags", id>>
    THEN tags[name[3]]
    ELSE None

\* res is "none" (no tag), "some" or "panic" (an expect() failed)
find_version_tree_and_info(version_id) ==
    LET reference == find_reference(version_reference(version_id))
    IN  IF reference = None
        THEN [res |-> "none", tree |-> {}, info |-> SavedInfo_default]
        ELSE LET commit == reference[1]
                 oid == commit.tree
                 message == commit.message
             IN  IF message.body = None
                 THEN [res |-> "some", tree |-> oid, info |-> SavedInfo_default]
                 ELSE LET parsed == from_str(message.body[1])
                      IN  IF parsed.ok
                          THEN [res |-> "some", tree |-> oid, info |-> parsed.info]
                          ELSE [res |-> "panic", tree |-> {},
                                info |-> SavedInfo_default]

----------------------------------------------------------------------------
\* repository.rs: the branch

\* Repository::head(): the reference HEAD resolves to
git_head ==
    IF head.symbolic
    THEN IF branch = None
         THEN [code |-> "UnbornBranch", commit |-> None]
         ELSE [code |-> "Ok", commit |-> branch]
    ELSE [code |-> "Ok", commit |-> head.at]

\* (a bug to compare with: the branch is not deleted)
clear_branch_keeps_branch(fail) ==
    [err |-> IF fail = "none" THEN "Ok" ELSE "Reset",
     branch |-> branch, head |-> head]

\* (a bug to compare with: HEAD is not set back to the branch name)
clear_branch_leaves_detached(fail) ==
    IF git_head.code = "UnbornBranch"
    THEN [err |-> "Ok", branch |-> branch, head |-> head]
    ELSE [err |-> IF fail = "none" THEN "Ok" ELSE "Reset",
          branch |-> None,
          head |-> [symbolic |-> FALSE, at |-> git_head.commit]]

\* clear_branch(); fail names the git call that returns an error, if any.
\* The result is the error kind and the references the call leaves behind.
clear_branch(fail) ==
    LET head_ref == git_head
        unchanged == [branch |-> branch, head |-> head]
        detached == [branch |-> branch,
                     head |-> [symbolic |-> FALSE, at |-> head_ref.commit]]
        deleted == [detached EXCEPT !.branch = None]
        cleared == [branch |-> None, head |-> [symbolic |-> TRUE, at |-> None]]
    IN  IF fail = "head" THEN [err |-> "Reset"] @@ unchanged
        ELSE IF head_ref.code = "UnbornBranch" THEN [err |-> "Ok"] @@ unchanged
        \* shorthand() of a detached HEAD is "HEAD": no such local branch
        ELSE IF ~head.symbolic \/ fail = "delete" THEN [err |-> "Reset"] @@ detached
        ELSE IF fail = "set_head" THEN [err |-> "Reset"] @@ deleted
        ELSE [err |-> "Ok"] @@ cleared

----------------------------------------------------------------------------
\* repository.rs: create_tree

\* (a bug to compare with: a pathspec matches the literal path only)
pathspec_match_literal(match, path) ==
    IF match.wild \/ match.pattern = path
    THEN (IF match.negative THEN 0 ELSE 1)
    ELSE -1

\* one pathspec against one path: 1 match, 0 negated match, -1 no match
pathspec_match_one(match, path) ==
    LET hit == \/ match.wild
               \/ match.pattern = path
               \/ /\ Len(path) > Len(match.pattern)
                  /\ SubSeq(path, 1, Len(match.pattern)) = match.pattern
    IN  IF hit THEN (IF match.negative THEN 0 ELSE 1) ELSE -1

\* the first pathspec that says anything about the path decides
RECURSIVE pathspec_match(_, _)
pathspec_match(pathspecs, path) ==
    IF pathspecs = <<>> THEN FALSE
    ELSE LET r == pathspec_match_one(Head(pathspecs), path)
         IN  IF r >= 0 THEN r > 0 ELSE pathspec_match(Tail(pathspecs), path)

\* index.remove_all(["!<path>"..., "*"])
remove_all(index, paths_to_include) ==
    LET pathspecs ==
            [n \in 1..Len(paths_to_include) |->
                [negative |-> TRUE, wild |-> FALSE,
                 pattern |-> paths_to_include[n]]]
            \o << [negative |-> FALSE, wild |-> TRUE, pattern |-> <<>>] >>
    IN  {entry \in index : ~pathspec_match(pathspecs, entry.path)}

\* the index entries add_file_to_index makes of one SourcePath
source_entries(source) ==
    {[path |-> source.repo_root
                 \o (IF source.root.is_file
                     THEN <<source.root.file_name>> \o file.rel
                     ELSE file.rel),
      id |-> file.id] : file \in source.root.files}

\* index.add_frombuffer: an entry replaces the entry of the same path
add_all(index, entries) ==
    {entry \in index : \A added \in entries : added.path # entry.path}
        \cup entries

create_tree(base, source_files) ==
    LET cleared == {}
        from_base ==
            IF base = None THEN cleared
            ELSE remove_all(base[1].tree, base[1].paths_to_include)
    IN  add_all(from_base, UNION {source_entries(s) : s \in source_files})

----------------------------------------------------------------------------
\* repository.rs: commit_and_tag

\* (a bug to compare with: the signature keeps the time of the run)
signature_time_of_run(version) == now

\* the time of the corrected signature
signature_time(version) == version.release_time

\* the commit object git_repo.commit() writes
new_commit(version, saved_info, tree, parent) ==
    [author |-> [when |-> signature_time(version)],
     committer |-> [when |-> signature_time(version)],
     message |-> [summary |-> version.id,
                  body |-> Some(to_string(saved_info))],
     tree |-> tree,
     parents |-> parent]

\* (a bug to compare with: an existing tag is not moved)
tag_unforced(version, commit) ==
    IF tags[version.id] = None
    THEN [tags EXCEPT ![version.id] = Some(commit)]
    ELSE tags

\* git_repo.tag(&version.id, commit, .., force = true)
tag(version, commit) == [tags EXCEPT ![version.id] = Some(commit)]

\* (a bug to compare with: an error of the tag call is dropped)
commit_and_tag_drops_tag_error(version, saved_info, tree, fail) ==
    LET head_ref == git_head
        parent == IF head_ref.code = "Ok" THEN head_ref.commit ELSE None
        commit == new_commit(version, saved_info, tree, parent)
    IN  IF fail = "commit"
        THEN [err |-> "Commit", tags |-> tags, branch |-> branch, head |-> head]
        ELSE [err |-> "Ok",
              tags |-> IF fail = "tag" THEN tags ELSE tag(version, commit),
              branch |-> Some(commit), head |-> head]

\* fail names the git call that returns an error, if any.  The result is
\* the error kind and the references the call leaves behind.
commit_and_tag(version, saved_info, tree, fail) ==
    LET head_ref == git_head
        parent == IF head_ref.code = "Ok" THEN head_ref.commit ELSE None
        commit == new_commit(version, saved_info, tree, parent)
        committed ==
            IF head.symbolic
            THEN [branch |-> Some(commit), head |-> head]
            ELSE [branch |-> branch,
                  head |-> [symbolic |-> FALSE, at |-> Some(commit)]]
    IN  IF fail = "commit"
        THEN [err |-> "Commit", tags |-> tags, branch |-> branch, head |-> head]
        ELSE IF fail = "tag"
        THEN [err |-> "Tag", tags |-> tags] @@ committed
        ELSE [err |-> "Ok", tags |-> tag(version, commit)] @@ committed

\* reset(): a hard reset to the commit HEAD resolves to moves no reference
reset(fail) ==
    IF git_head.code # "Ok" \/ fail = "reset" THEN "Reset" ELSE "Ok"

----------------------------------------------------------------------------
\* decompiler.rs: the producer

\* the files the Gradle build leaves in decompiledSources: they vary with
\* the version and with the schema of the artifact
class_files(version) ==
    IF (version.id + DecompileArtifact_version("DecompiledClasses")) % 2 = 0
    THEN {<<"A.java">>, <<"pkg", "B.java">>}
    ELSE {<<"A.java">>, <<"pkg", "C.java">>, <<"D.java">>}

\* the object id of a produced file: a hash of content that is a function
\* of the version, the artifact, the artifact's schema and the file
produced_id(version, artifact, file) ==
    [version |-> version.id, artifact |-> artifact,
     schema |-> DecompileArtifact_version(artifact), file |-> file]

\* the file or directory the build leaves for one artifact
produced_root(version, artifact) ==
    IF artifact = "DecompiledClasses"
    THEN [is_file |-> FALSE, file_name |-> "decompiledSources",
          files |-> {[rel |-> f, id |-> produced_id(version, artifact, f)] :
                        f \in class_files(version)}]
    ELSE [is_file |-> TRUE, file_name |-> "libraries.txt",
          files |-> {[rel |-> <<>>,
                      id |-> produced_id(version, artifact, <<>>)]}]

\* decompile_version(): DecompileResult.artifacts of a successful call
decompile_version(version, requested_artifacts) ==
    [artifact \in {requested_artifacts[n] : n \in 1..Len(requested_artifacts)}
        |-> produced_root(version, artifact)]

----------------------------------------------------------------------------
\* main.rs: the loop body's decisions

\* the lookup result main keeps for a version of this run, if any
saved(version) == versions_to_tree[version.id]

\* `existing_info` when the loop reaches the producer
existing_info_of(version) ==
    IF saved(version) = None THEN SavedInfo_default ELSE saved(version)[1].info

\* the test that sends a version down the short-circuit path
already_processed(version) ==
    saved(version) # None /\ is_current(saved(version)[1].info)

\* (a bug to compare with: an artifact at the table's version is stale)
is_needed_at_equal(existing_info, artifact) ==
    get_artifact_version(existing_info, artifact)
        <= DecompileArtifact_version(artifact)

\* the per-artifact staleness test
is_needed(existing_info, artifact) ==
    get_artifact_version(existing_info, artifact)
        < DecompileArtifact_version(artifact)

\* `artifacts_needed`, in the order of DecompileArtifact::all()
artifacts_needed_of(existing_info) ==
    LET Needed(artifact) == is_needed(existing_info, artifact)
    IN  SelectSeq(DecompileArtifact_all, Needed)

\* (a bug to compare with: the paths of all artifacts are kept)
tree_base_keeps_all(version) ==
    IF saved(version) = None THEN None
    ELSE Some([tree |-> saved(version)[1].tree,
               paths_to_include |->
                   [n \in 1..Len(DecompileArtifact_all) |->
                       path_in_repository(DecompileArtifact_all[n])]])

\* `tree_base`, with the paths of the artifacts that are not needed
tree_base_of(version) ==
    IF saved(version) = None THEN None
    ELSE LET Kept(artifact) == ~is_needed(existing_info_of(version), artifact)
             kept == SelectSeq(DecompileArtifact_all, Kept)
         IN  Some([tree |-> saved(version)[1].tree,
                   paths_to_include |->
                       [n \in 1..Len(kept) |-> path_in_repository(kept[n])]])

\* the SourcePaths main makes of a DecompileResult
source_paths(artifacts) ==
    {[root |-> artifacts[artifact],
      repo_root |-> path_in_repository(artifact)] :
        artifact \in DOMAIN artifacts}

\* (a bug to compare with: the rebuilt entry records no versions)
rebuilt_info_default == SavedInfo_default

\* the ledger main commits after a rebuild
rebuilt_info == SavedInfo_current

----------------------------------------------------------------------------
\* main.rs: the release times of config.min_version and config.max_version

\* the fold over all_versions, after its first n versions
RECURSIVE extracted_release_times(_, _, _)
extracted_release_times(cfg, all, n) ==
    IF n = 0 THEN <<None, None>>
    ELSE LET acc == extracted_release_times(cfg, all, n - 1)
             min == acc[1]
             max == acc[2]
             version == all[n]
         IN  IF version.id = cfg.min_version
             THEN <<Some(version.release_time), max>>
             ELSE IF version.id = cfg.max_version
             THEN <<min, Some(version.release_time)>>
             ELSE <<min, max>>

NotResolved == [res |-> "none", min |-> 0, max |-> 0]

\* res is "Ok" or the UserError's message: which version was not found
verify_release_times(cfg, extracted) ==
    IF extracted[1] # None /\ extracted[2] # None
    THEN [res |-> "Ok", min |-> extracted[1][1], max |-> extracted[2][1]]
    ELSE IF extracted[1] = None /\ extracted[2] # None
    THEN [res |-> "Minimum version not found", min |-> 0, max |-> 0]
    ELSE IF extracted[1] # None /\ extracted[2] = None
    THEN [res |-> "Maximum version not found", min |-> 0, max |-> 0]
    ELSE [res |-> "Neither found", min |-> 0, max |-> 0]

----------------------------------------------------------------------------
\* decompiler.rs: the Parchment version of each manifest version

\* the keys of PARCHMENT_VERSIONS, in insertion order: version ids
PARCHMENT_VERSIONS_keys == [n \in 1..MaxParchment |-> 2 * n]

NotIndexed == [res |-> "none", map |-> <<>>]

\* the loop of index_parchment_mc_versions after its first n versions:
\* the index of the next key of the iterator, the current key, the map
RECURSIVE index_loop(_, _)
index_loop(list, n) ==
    IF n = 0
    THEN [next |-> 1, current |-> None, map |-> <<>>]
    ELSE LET before == index_loop(list, n - 1)
             version == list[n]
             hit == /\ before.next <= Len(PARCHMENT_VERSIONS_keys)
                    /\ version.id = PARCHMENT_VERSIONS_keys[before.next]
             current == IF hit
                        THEN Some(PARCHMENT_VERSIONS_keys[before.next])
                        ELSE before.current
         IN  [next |-> IF hit THEN before.next + 1 ELSE before.next,
              current |-> current,
              map |-> [id \in DOMAIN before.map \cup {version.id} |->
                          IF id = version.id THEN current
                          ELSE before.map[id]]]

\* (a bug to compare with: a key that is left over is not reported)
index_parchment_mc_versions_no_panic(all_versions_sorted_by_date) ==
    [res |-> "ok",
     map |-> index_loop(all_versions_sorted_by_date,
                        Len(all_versions_sorted_by_date)).map]

\* res is "ok" or "panic"
index_parchment_mc_versions(all_versions_sorted_by_date) ==
    LET end == index_loop(all_versions_sorted_by_date,
                          Len(all_versions_sorted_by_date))
    IN  IF end.next <= Len(PARCHMENT_VERSIONS_keys)
        THEN [res |-> "panic", map |-> <<>>]
        ELSE [res |-> "ok", map |-> end.map]

----------------------------------------------------------------------------
\* The state machine of main, run after run.

Init ==
    /\ tags = [id \in VersionIds |-> None]
    /\ branch = None
    /\ head = [symbolic |-> TRUE, at |-> None]
    /\ bump = [artifact \in Artifacts |-> 0]
    /\ pc = "idle"
    /\ versions = <<>>
    /\ i = 1
    /\ versions_to_tree = [id \in VersionIds |-> None]
    /\ result = "none"
    /\ calls = <<>>
    /\ now = 0
    /\ rerun = FALSE
    /\ completed = None
    /\ interrupted = None
    /\ resumed = {}
    /\ all_versions = <<>>
    /\ config = [min_version |-> 0, max_version |-> 0]
    /\ release_times = NotResolved
    /\ parchment_versions = NotIndexed

\* main returns (or panics): what is left is the store and what the run
\* returned
Halt(returned) ==
    /\ pc' = "done"
    /\ result' = returned
    /\ completed' = IF returned = "Ok" THEN Some(versions) ELSE None
    /\ interrupted' = IF pc = "loop" /\ i <= Len(versions)
                      THEN Some([processed |->
                                     {versions[n].id : n \in 1..(i - 1)},
                                 failed_on |-> versions[i].id,
                                 remaining |->
                                     {versions[n].id :
                                         n \in (i + 1)..Len(versions)}])
                      ELSE None
    /\ resumed' = {}
    /\ versions' = <<>>
    /\ i' = 1
    /\ versions_to_tree' = [id \in VersionIds |-> None]
    /\ calls' = <<>>
    /\ now' = 0
    /\ rerun' = FALSE

\* the number of builds installed after the first one
builds_installed == bump["DecompiledClasses"] + bump["LibrariesTxt"]

\* the wall clock when a run starts: later than every release, and later
\* with every build that was installed
clock == 1000 + builds_installed

\* main.rs 57-120: the version list, the lookups, clear_branch
StartRun(ids, fail) ==
    /\ pc \in {"idle", "done"}
    /\ LET found == [id \in VersionIds |-> find_version_tree_and_info(id)]
           cleared == clear_branch(fail)
       IN  IF \E id \in ids : found[id].res = "panic"
           THEN Halt("panic") /\ UNCHANGED <<branch, head>>
           ELSE /\ branch' = cleared.branch
                /\ head' = cleared.head
                /\ IF cleared.err = "Ok"
                   THEN /\ pc' = "loop"
                        /\ result' = "running"
                        /\ versions' = sort_by_release_time(ids)
                        /\ i' = 1
                        /\ rerun' = (completed = Some(sort_by_release_time(ids)))
                        /\ completed' = None
                        /\ versions_to_tree' =
                               [id \in VersionIds |->
                                   IF id \in ids /\ found[id].res = "some"
                                   THEN Some([tree |-> found[id].tree,
                                              info |-> found[id].info])
                                   ELSE None]
                        /\ calls' = <<>>
                        /\ now' = clock
                        /\ resumed' = IF interrupted = None THEN {}
                                       ELSE interrupted[1].processed
                        /\ interrupted' = None
                   ELSE Halt(cleared.err)
    /\ UNCHANGED <<tags, bump, manifest>>

\* main.rs 134-141: the version is already processed, commit its tree again
Retag(fail) ==
    /\ pc = "loop"
    /\ i <= Len(versions)
    /\ already_processed(versions[i])
    /\ LET version == versions[i]
           done == commit_and_tag(version, saved(version)[1].info,
                                  saved(version)[1].tree, fail)
       IN  /\ tags' = done.tags
           /\ branch' = done.branch
           /\ head' = done.head
           /\ IF done.err = "Ok"
              THEN /\ i' = i + 1
                   /\ UNCHANGED <<pc, result, versions, versions_to_tree,
                                  calls, now, rerun, completed, interrupted,
                                  resumed>>
              ELSE Halt(done.err)
    /\ UNCHANGED <<bump, manifest>>

\* main.rs 142-185: decompile what is stale, build the tree, commit and tag
Rebuild(fail) ==
    /\ pc = "loop"
    /\ i <= Len(versions)
    /\ ~already_processed(versions[i])
    /\ LET version == versions[i]
           artifacts_needed == artifacts_needed_of(existing_info_of(version))
           artifacts == decompile_version(version, artifacts_needed)
           tree == create_tree(tree_base_of(version), source_paths(artifacts))
           done == commit_and_tag(version, rebuilt_info, tree, fail)
       IN  IF fail = "decompile"
           THEN Halt("Decompilation") /\ UNCHANGED store
           ELSE IF fail = "create_tree"
           THEN Halt("Commit") /\ UNCHANGED store
           ELSE /\ tags' = done.tags
                /\ branch' = done.branch
                /\ head' = done.head
                /\ IF done.err = "Ok"
                   THEN /\ i' = i + 1
                        /\ calls' = Append(calls,
                               [version |-> version.id,
                                requested |-> artifacts_needed,
                                artifacts |-> artifacts])
                        /\ UNCHANGED <<pc, result, versions, versions_to_tree,
                                       now, rerun, completed, interrupted,
                                       resumed>>
                   ELSE Halt(done.err)
    /\ UNCHANGED <<bump, manifest>>

\* main.rs 190-195: the loop is over, reset and return
Finish(fail) ==
    /\ pc = "loop"
    /\ i > Len(versions)
    /\ Halt(reset(fail))
    /\ UNCHANGED <<store, bump, manifest>>

\* A later build of the program, with one artifact's version() bumped, is
\* installed between two runs: nothing of the last run's process is left.
Bump(artifact) ==
    /\ pc \in {"idle", "done"}
    /\ builds_installed < MaxBump
    /\ bump' = [bump EXCEPT ![artifact] = @ + 1]
    /\ pc' = "idle"
    /\ result' = "none"
    /\ versions' = <<>>
    /\ i' = 1
    /\ versions_to_tree' = [id \in VersionIds |-> None]
    /\ calls' = <<>>
    /\ now' = 0
    /\ rerun' = FALSE
    /\ completed' = None
    /\ interrupted' = None
    /\ resumed' = {}
    /\ UNCHANGED <<store, manifest>>

\* the git call that fails: in clear_branch head() or set_head_detached()
\* ("head"), find_branch() or delete(), set_head(); in commit_and_tag
\* signature() or commit() ("commit"), tag()
ClearFailures == {"none", "head", "delete", "set_head"}

CommitFailures == {"none", "commit", "tag"}

RebuildFailures == CommitFailures \cup {"decompile", "create_tree"}

ResetFailures == {"none", "reset"}

Next ==
    \/ \E ids \in SUBSET VersionIds, fail \in ClearFailures :
           StartRun(ids, fail)
    \/ \E fail \in CommitFailures : Retag(fail)
    \/ \E fail \in RebuildFailures : Rebuild(fail)
    \/ \E fail \in ResetFailures : Finish(fail)
    \/ \E artifact \in Artifacts : Bump(artifact)

Spec == Init /\ [][Next]_vars

\* runs in which no call fails, over any filtered list
NextNoFailure ==
    \/ \E ids \in SUBSET VersionIds : StartRun(ids, "none")
    \/ Retag("none")
    \/ Rebuild("none")
    \/ Finish("none")
    \/ \E artifact \in Artifacts : Bump(artifact)

SpecNoFailure == Init /\ [][NextNoFailure]_vars

----------------------------------------------------------------------------
\* A repository that exists before the first run and holds one commit the
\* program did not write: version 1, tagged and on the branch, with any
\* commit message.

FieldKeys == {"decompiled_classes_version", "output_version",
              "libraries_output_version", "unknown_key"}

Lines == {[key |-> k, val |-> v] : k \in FieldKeys, v \in -1..MaxSavedVersion}
             \cup {[key |-> "%", val |-> 0]}

Bodies == UNION {[1..n -> Lines] : n \in 0..MaxBodyLines}

ExistingTree ==
    {[path |-> <<"src", "A.java">>,
      id |-> [version |-> 1, artifact |-> "DecompiledClasses", schema |-> 0,
              file |-> <<"A.java">>]],
     [path |-> <<"libraries.txt", "libraries.txt">>,
      id |-> [version |-> 1, artifact |-> "LibrariesTxt", schema |-> 0,
              file |-> <<>>]]}

ExistingCommit(body) ==
    [author |-> [when |-> 5], committer |-> [when |-> 5],
     message |-> [summary |-> 1, body |-> body],
     tree |-> ExistingTree,
     parents |-> None]

InitExisting ==
    /\ \E body \in {None} \cup {Some(b) : b \in Bodies} :
           /\ tags = [id \in VersionIds |->
                         IF id = 1 THEN Some(ExistingCommit(body)) ELSE None]
           /\ branch = Some(ExistingCommit(body))
    /\ head = [symbolic |-> TRUE, at |-> None]
    /\ bump = [artifact \in Artifacts |-> 0]
    /\ pc = "idle"
    /\ versions = <<>>
    /\ i = 1
    /\ versions_to_tree = [id \in VersionIds |-> None]
    /\ result = "none"
    /\ calls = <<>>
    /\ now = 0
    /\ rerun = FALSE
    /\ completed = None
    /\ interrupted = None
    /\ resumed = {}
    /\ all_versions = <<>>
    /\ config = [min_version |-> 0, max_version |-> 0]
    /\ release_times = NotResolved
    /\ parchment_versions = NotIndexed

\* runs over the whole manifest, in which no call fails
NextExisting ==
    \/ StartRun(VersionIds, "none")
    \/ Retag("none")
    \/ Rebuild("none")
    \/ Finish("none")

SpecExisting == InitExisting /\ [][NextExisting]_vars

----------------------------------------------------------------------------
\* main's two readings of the manifest, for any manifest and any config.

ManifestIds == 1..(2 * MaxParchment)

\* the ids config may name: one that no manifest has, and two others
ConfigIds == {0} \cup {id \in ManifestIds : id <= 2}

\* the lists of distinct ids
DistinctIds ==
    {s \in UNION {[1..n -> ManifestIds] : n \in 0..Cardinality(ManifestIds)} :
        \A m, n \in 1..Len(s) : m # n => s[m] # s[n]}

\* the manifests: versions with distinct ids, release times rising
Manifests ==
    {[n \in 1..Len(s) |-> [id |-> s[n], release_time |-> 10 * n]] :
        s \in DistinctIds}

InitManifest ==
    /\ all_versions \in Manifests
    /\ config \in [min_version : ConfigIds, max_version : ConfigIds]
    /\ release_times = NotResolved
    /\ parchment_versions = NotIndexed
    /\ tags = [id \in VersionIds |-> None]
    /\ branch = None
    /\ head = [symbolic |-> TRUE, at |-> None]
    /\ bump = [artifact \in Artifacts |-> 0]
    /\ pc = "idle"
    /\ versions = <<>>
    /\ i = 1
    /\ versions_to_tree = [id \in VersionIds |-> None]
    /\ result = "none"
    /\ calls = <<>>
    /\ now = 0
    /\ rerun = FALSE
    /\ completed = None
    /\ interrupted = None
    /\ resumed = {}

\* main.rs 66-78
ResolveRange ==
    /\ release_times = NotResolved
    /\ release_times' =
           verify_release_times(config,
               extracted_release_times(config, all_versions,
                                       Len(all_versions)))
    /\ UNCHANGED <<tags, branch, head, bump, pc, versions, i,
                   versions_to_tree, result, calls, now, rerun, completed,
                   interrupted, resumed, all_versions, config,
                   parchment_versions>>

\* main.rs 106
IndexParchment ==
    /\ parchment_versions = NotIndexed
    /\ parchment_versions' = index_parchment_mc_versions(all_versions)
    /\ UNCHANGED <<tags, branch, head, bump, pc, versions, i,
                   versions_to_tree, result, calls, now, rerun, completed,
                   interrupted, resumed, all_versions, config,
                   release_times>>

NextManifest == ResolveRange \/ IndexParchment

SpecManifest == InitManifest /\ [][NextManifest]_vars

----------------------------------------------------------------------------
\* What the properties below look at.

\* the ids of a sequence of versions
ids_of(vs) == {vs[n].id : n \in 1..Len(vs)}

\* the elements of a sequence
elements(seq) == {seq[n] : n \in 1..Len(seq)}

\* the commits from the first one to the given one, following parents
RECURSIVE history(_)
history(commit) ==
    IF commit = None THEN <<>>
    ELSE history(commit[1].parents) \o <<commit[1]>>

\* every commit a reference of the store reaches
Commits ==
    UNION {elements(history(tags[id])) : id \in VersionIds}
        \cup elements(history(branch)) \cup elements(history(head.at))

\* the ledger a commit's message carries
ledger_of(commit) == from_str(commit.message.body[1]).info

is_under(path, root) ==
    Len(path) >= Len(root) /\ SubSeq(path, 1, Len(root)) = root

\* the entries of a tree at or below an artifact's repository path
entries_of(tree, artifact) ==
    {entry \in tree : is_under(entry.path, path_in_repository(artifact))}

\* the loop has just committed and tagged versions[i - 1]
Processed == pc = "loop" /\ i > 1

\* ... after decompiling it
Rebuilt ==
    Processed /\ calls # <<>> /\ calls[Len(calls)].version = versions[i - 1].id

\* ... without decompiling it
Retagged == Processed /\ ~Rebuilt

\* the run returned Ok
Succeeded == pc = "done" /\ result = "Ok"

----------------------------------------------------------------------------
\* C1: after a run that returns Ok over N >= 1 versions, the history of the
\* branch head has exactly N commits, one per version in the order of the
\* list; the first has no parent, every other one has exactly one parent,
\* the commit of the version before it.
ChainIsLinear ==
    (Succeeded /\ Len(completed[1]) >= 1) =>
        LET chain == history(branch)
        IN  /\ head.symbolic
            /\ Len(chain) = Len(completed[1])
            /\ \A n \in 1..Len(chain) :
                   /\ chain[n].message.summary = completed[1][n].id
                   /\ chain[n].parents =
                          IF n = 1 THEN None ELSE Some(chain[n - 1])

\* a successful run over one version or more, in a store in which an
\* earlier run with another list left the tag of a version of its own
ChainIsLinearWitness ==
    /\ Succeeded
    /\ Len(completed[1]) >= 1
    /\ \E id \in VersionIds \ ids_of(completed[1]) : tags[id] # None

\* C2: every commit has its author time and its committer time equal to
\* the release time of its version, whichever path made it and whenever
\* the run happened.
CommitTimeIsReleaseTime ==
    \A commit \in Commits :
        /\ commit.author.when = release_time(commit.message.summary)
        /\ commit.committer.when = release_time(commit.message.summary)

\* a version retagged and a version rebuilt in one run, at a wall-clock
\* time that is no release time
CommitTimeIsReleaseTimeWitness ==
    /\ Rebuilt
    /\ i = 3
    /\ Len(calls) = 1
    /\ now \notin {release_time(id) : id \in VersionIds}
    /\ Cardinality(Commits) >= 2

\* C3: a run that repeats a successful run (same list, same schema table)
\* never calls the producer, and once it has processed its last version
\* every version's lookup gives the tree and the ledger it gave after the
\* first run (what the repeating run found when it started).
RerunIsIdempotent ==
    (rerun /\ pc = "loop") =>
        /\ calls = <<>>
        /\ i > Len(versions) =>
               \A id \in ids_of(versions) :
                   LET found == find_version_tree_and_info(id)
                   IN  /\ found.res = "some"
                       /\ versions_to_tree[id] =
                              Some([tree |-> found.tree, info |-> found.info])

\* a repeating run over the whole manifest has processed its last version
RerunIsIdempotentWitness ==
    rerun /\ pc = "loop" /\ i > Len(versions) /\ Len(versions) = NumVersions

\* C4: a successful commit_and_tag for a version leaves the version's tag
\* at the commit just created, on top of the old head, and moves no other
\* tag; nothing else ever moves a tag.
TagFrame ==
    [][IF pc = "loop" /\ i' = i + 1
       THEN LET id == versions[i].id
            IN  /\ tags'[id] = branch'
                /\ branch' # None
                /\ branch'[1].parents = branch
                /\ branch'[1].message.summary = id
                /\ \A other \in VersionIds \ {id} : tags'[other] = tags[other]
       ELSE tags' = tags]_vars

\* the tag of a version was moved from an older entry to a rebuilt one,
\* while a version that is not in the run's list keeps its tag
TagFrameWitness ==
    /\ Rebuilt
    /\ saved(versions[i - 1]) # None
    /\ tags[versions[i - 1].id] = branch
    /\ branch[1].tree # saved(versions[i - 1])[1].tree
    /\ \E id \in VersionIds \ ids_of(versions) : tags[id] # None

\* C5: in every commit, for each artifact, the tree holds content at the
\* artifact's path, and all of it was produced for the commit's version
\* under the schema version the commit's ledger records.
LedgerMatchesTree ==
    \A commit \in Commits : \A artifact \in Artifacts :
        LET recorded == get_artifact_version(ledger_of(commit), artifact)
        IN  /\ recorded > 0
            /\ entries_of(commit.tree, artifact) # {}
            /\ \A entry \in entries_of(commit.tree, artifact) :
                   /\ entry.id.artifact = artifact
                   /\ entry.id.schema = recorded
                   /\ entry.id.version = commit.message.summary

\* a commit whose tree joins content kept from the old tree with content
\* decompiled after a schema bump
LedgerMatchesTreeWitness ==
    /\ Rebuilt
    /\ saved(versions[i - 1]) # None
    /\ Len(calls[Len(calls)].requested) = 1
    /\ \E artifact \in Artifacts : bump[artifact] > 0

\* C6: a rebuild from a previous tree keeps the entries under the paths of
\* the artifacts that are not stale, path and object id, and has under the
\* path of each stale artifact exactly the files the producer returned.
TreeReuse ==
    [][(pc = "loop" /\ i' = i + 1 /\ Len(calls') = Len(calls) + 1
            /\ saved(versions[i]) # None) =>
       LET old == saved(versions[i])[1].tree
           new == tags'[versions[i].id][1].tree
           call == calls'[Len(calls')]
       IN  \A artifact \in Artifacts :
               IF artifact \in elements(call.requested)
               THEN /\ entries_of(old, artifact) \cap new = {}
                    /\ {entry.id : entry \in entries_of(new, artifact)} =
                           {file.id : file \in call.artifacts[artifact].files}
                    /\ Cardinality(entries_of(new, artifact)) =
                           Cardinality(call.artifacts[artifact].files)
               ELSE entries_of(new, artifact) = entries_of(old, artifact)]_vars

\* a version rebuilt from its previous tree with one artifact stale, whose
\* other artifact had entries to keep
TreeReuseWitness ==
    /\ Rebuilt
    /\ saved(versions[i - 1]) # None
    /\ \E artifact \in Artifacts :
           /\ artifact \notin elements(calls[Len(calls)].requested)
           /\ entries_of(saved(versions[i - 1])[1].tree, artifact) # {}
           /\ entries_of(tags[versions[i - 1].id][1].tree, artifact) # {}

\* C7: the ledger committed after a rebuild records the current version
\* for every artifact that was regenerated and the old ledger's version,
\* unchanged, for every other artifact.
MergeKeepsOldVersions ==
    Rebuilt =>
        LET version == versions[i - 1]
            old == existing_info_of(version)
            regenerated == elements(calls[Len(calls)].requested)
            committed == ledger_of(tags[version.id][1])
        IN  \A artifact \in Artifacts :
                get_artifact_version(committed, artifact) =
                    IF artifact \in regenerated
                    THEN DecompileArtifact_version(artifact)
                    ELSE get_artifact_version(old, artifact)

\* C8: is_current holds of a ledger exactly when no artifact is stale for
\* it.
CurrentIffNothingStale ==
    \A id \in VersionIds :
        versions_to_tree[id] # None =>
            LET info == versions_to_tree[id][1].info
            IN  is_current(info) <=> artifacts_needed_of(info) = <<>>

\* a run found a ledger that is current with a version above the table's
CurrentIffNothingStaleWitness ==
    /\ pc = "loop"
    /\ versions_to_tree[1] # None
    /\ LET info == versions_to_tree[1][1].info
       IN  /\ info.libraries_output_version
                  > DecompileArtifact_version("LibrariesTxt")
           /\ is_current(info)

\* C9: the producer is called for a version only when the version has no
\* tag or its ledger is not current, with exactly the stale artifacts of
\* that ledger, and never with none.
ProducerGetsStaleKinds ==
    \A n \in 1..Len(calls) :
        LET found == versions_to_tree[calls[n].version]
            ledger == IF found = None THEN SavedInfo_default ELSE found[1].info
            stale == {artifact \in Artifacts :
                         get_artifact_version(ledger, artifact)
                             < DecompileArtifact_version(artifact)}
        IN  /\ found = None \/ ~is_current(ledger)
            /\ elements(calls[n].requested) = stale
            /\ Len(calls[n].requested) = Cardinality(stale)
            /\ calls[n].requested # <<>>

\* the producer was called for a tagged version with one stale artifact
\* and for a version without a tag
ProducerGetsStaleKindsWitness ==
    /\ Len(calls) = 2
    /\ \E n \in 1..2 : /\ versions_to_tree[calls[n].version] # None
                       /\ Len(calls[n].requested) = 1
    /\ \E n \in 1..2 : versions_to_tree[calls[n].version] = None

\* C10: lookup never ends the run; a tagged commit whose message has no
\* body, or a body that does not parse as a ledger, is found with its tree
\* and the all-zero ledger.
LookupDefaultsOnBadMetadata ==
    /\ result # "panic"
    /\ (pc = "loop" /\ i = 1) =>
           \A id \in ids_of(versions) :
               (/\ tags[id] # None
                /\ \/ tags[id][1].message.body = None
                   \/ ~from_str(tags[id][1].message.body[1]).ok)
               => versions_to_tree[id] =
                      Some([tree |-> tags[id][1].tree,
                            info |-> SavedInfo_default])

\* C11: when a run fails on a version, every version it processed before has
\* a tag at a commit with a current ledger; every tag resolves to a tree and
\* a ledger, and no step removes a tag; the run after it, under the same
\* table, calls the producer for none of those versions and, once through
\* its list, has built the linear chain of the list.
Resumable ==
    /\ [](/\ \A id \in VersionIds :
                tags[id] # None => find_version_tree_and_info(id).res = "some"
          /\ interrupted # None =>
                 \A id \in interrupted[1].processed :
                     /\ tags[id] # None
                     /\ is_current(ledger_of(tags[id][1]))
          /\ resumed # {} =>
                 /\ \A n \in 1..Len(calls) : calls[n].version \notin resumed
                 /\ i > Len(versions) =>
                        LET chain == history(branch)
                        IN  /\ head.symbolic
                            /\ Len(chain) = Len(versions)
                            /\ \A n \in 1..Len(chain) :
                                   /\ tags[versions[n].id] = Some(chain[n])
                                   /\ chain[n].parents =
                                          IF n = 1 THEN None
                                          ELSE Some(chain[n - 1]))
    /\ [][\A id \in VersionIds : tags[id] # None => tags'[id] # None]_vars

\* the run after a run that failed on its second version has retagged the
\* first version, decompiled the second and is through its list
ResumableWitness ==
    /\ pc = "loop"
    /\ Len(versions) = NumVersions
    /\ resumed = {versions[1].id}
    /\ i > Len(versions)
    /\ calls # <<>>

\* C12: a run that failed on a version has persisted nothing of it: the
\* branch head is never a commit of a version whose tag is missing or at
\* another commit.
VersionIsAtomic ==
    (pc = "done" /\ result \in {"Decompilation", "Commit", "Tag"}) =>
        (branch # None => tags[branch[1].message.summary] = branch)

\* C13: a run in which no call of the producer or of the store fails ends
\* successfully, with HEAD on the branch, whatever the length of its list,
\* zero included.
RunWithoutFailureSucceeds ==
    pc = "done" => (result = "Ok" /\ head.symbolic)

\* C14: a step of the loop either commits and tags the version it looks at
\* and goes on, or ends the run with the error kind of the call that failed
\* (Tag exactly when the commit was written), with no tag moved and the
\* versions after it not looked at; a run that ended does nothing more.
HaltsOnFirstError ==
    [][/\ (pc = "loop" /\ i <= Len(versions)) =>
              LET id == versions[i].id
              IN  IF i' = i + 1
                  THEN /\ pc' = "loop"
                       /\ branch' # None
                       /\ branch'[1].parents = branch
                       /\ tags'[id] = branch'
                  ELSE /\ pc' = "done"
                       /\ result' \in {"Decompilation", "Commit", "Tag"}
                       /\ result' = "Tag" <=> branch' # branch
                       /\ tags' = tags
                       /\ interrupted' =
                              Some([processed |->
                                        {versions[n].id : n \in 1..(i - 1)},
                                    failed_on |-> id,
                                    remaining |->
                                        {versions[n].id :
                                            n \in (i + 1)..Len(versions)}])
       /\ pc = "done" =>
              /\ tags' = tags
              /\ calls' = <<>>
              /\ pc' = "done" => result' # "Ok"]_vars

\* a run ended with an error on a version that was not the last of its
\* list, and the versions after it have no tag
HaltsOnFirstErrorWitness ==
    /\ pc = "done"
    /\ result \in {"Decompilation", "Commit", "Tag"}
    /\ interrupted # None
    /\ interrupted[1].remaining # {}
    /\ \A id \in interrupted[1].remaining : tags[id] = None

\* C15: the clear_branch of a run leaves the branch without a ref and HEAD
\* symbolic at it, returns Ok, and is a no-op on an unborn branch; it moves
\* no tag, the lookups made before it are those of the store after it, and
\* the first commit of the run has no parent.
ClearBranchFrame ==
    [][/\ (pc \in {"idle", "done"} /\ pc' # "idle") =>
              /\ pc' = "loop"
              /\ head.symbolic
              /\ branch' = None
              /\ head' = [symbolic |-> TRUE, at |-> None]
              /\ branch = None => head' = head
              /\ tags' = tags
              /\ \A id \in ids_of(versions') :
                     LET found == find_version_tree_and_info(id)'
                     IN  versions_to_tree'[id] =
                             IF found.res = "some"
                             THEN Some([tree |-> found.tree,
                                        info |-> found.info])
                             ELSE None
       /\ (pc = "loop" /\ i = 1 /\ i' = 2) =>
              /\ branch' # None
              /\ branch'[1].parents = None]_vars

\* the run after a successful run over the same list, which left a branch
\* with commits, has made its first commit, without a parent
ClearBranchFrameWitness ==
    /\ rerun
    /\ pc = "loop"
    /\ i = 2
    /\ branch # None
    /\ branch[1].parents = None
    /\ versions_to_tree[versions[1].id] # None

\* C16: when the manifest has both config.min_version and
\* config.max_version (the same id or not), the result is Ok with their two
\* release times; the error that the minimum (the maximum) version was not
\* found is returned only when the manifest does not have that id.
RangeResolves ==
    release_times # NotResolved =>
        LET present(id) ==
                \E n \in 1..Len(all_versions) : all_versions[n].id = id
            time_of(id) ==
                all_versions[CHOOSE n \in 1..Len(all_versions) :
                                 all_versions[n].id = id].release_time
        IN  /\ (present(config.min_version) /\ present(config.max_version)) =>
                   /\ release_times.res = "Ok"
                   /\ release_times.min = time_of(config.min_version)
                   /\ release_times.max = time_of(config.max_version)
            /\ release_times.res = "Minimum version not found" =>
                   ~present(config.min_version)
            /\ release_times.res = "Maximum version not found" =>
                   ~present(config.max_version)

\* C17: index_parchment_mc_versions panics exactly when the keys of the
\* table are not all in the list in table order; otherwise every id of the
\* list has an entry: None before the first key of the list, else the last
\* key at or before it, so the keys never go back along the list.
ParchmentIndexIsLatestKey ==
    parchment_versions # NotIndexed =>
        LET list == all_versions
            keys == PARCHMENT_VERSIONS_keys
            is_key(id) == \E k \in 1..Len(keys) : keys[k] = id
            rank(id) == CHOOSE k \in 1..Len(keys) : keys[k] = id
            at(id) == CHOOSE n \in 1..Len(list) : list[n].id = id
            in_order ==
                /\ \A k \in 1..Len(keys) :
                       \E n \in 1..Len(list) : list[n].id = keys[k]
                /\ \A j, k \in 1..Len(keys) :
                       j < k => at(keys[j]) < at(keys[k])
            keys_until(n) == {m \in 1..n : is_key(list[m].id)}
            latest(n) ==
                list[CHOOSE m \in keys_until(n) :
                         \A o \in keys_until(n) : o <= m].id
            map == parchment_versions.map
        IN  /\ parchment_versions.res = "panic" <=> ~in_order
            /\ parchment_versions.res = "ok" =>
                   /\ DOMAIN map = {list[n].id : n \in 1..Len(list)}
                   /\ \A n \in 1..Len(list) :
                          map[list[n].id] =
                              IF keys_until(n) = {} THEN None
                              ELSE Some(latest(n))
                   /\ \A m, n \in 1..Len(list) :
                          (m < n /\ map[list[m].id] # None) =>
                              /\ map[list[n].id] # None
                              /\ rank(map[list[m].id][1])
                                     <= rank(map[list[n].id][1])

\* a list with a version before the first key, the keys in table order and
\* a version after a key that is no key itself
ParchmentIndexIsLatestKeyWitness ==
    /\ parchment_versions.res = "ok"
    /\ Len(all_versions) > Len(PARCHMENT_VERSIONS_keys) + 1
    /\ parchment_versions.map[all_versions[1].id] = None
    /\ \E n \in 2..Len(all_versions) :
           /\ parchment_versions.map[all_versions[n].id] # None
           /\ parchment_versions.map[all_versions[n].id]
                  # Some(all_versions[n].id)

====
